---- MODULE Spec2Model ----
(***************************************************************************)
(* Batch evaluation engine of the LLM Batch Evaluator (App component):     *)
(* the concurrency limiter (useConcurrentQueue), the orchestrator          *)
(* (handleStart), the pause signal, and the handlers that load records.    *)
(*                                                                         *)
(* JavaScript runs every callback to completion.  A macrotask (a click, a  *)
(* network response, a timer, a finished file parse) starts only when the  *)
(* microtask queue is empty; the continuations of resolved promises are    *)
(* microtasks and run in FIFO order.  The variable micro is that queue.    *)
(* Record indices are 1-based here (0-based in the source).                *)
(***************************************************************************)
EXTENDS Integers, Sequences, FiniteSets, TLC

\* ---- bounds of the model ----
MaxRecords == 3
MaxK == 2
MaxRetriesBound == 1
MaxOverlap == 2
MaxBatches == 2
MaxReload == 1
MaxTplLen == 6
MaxTextLen == 6

Slots == 1..MaxOverlap
Idx == 1..MaxRecords
TaskIds == Slots \X Idx

\* ---- program constants ----
BaseDelay == 500

VARIABLES
  apiKey,      \* useState apiKey: TRUE when non-empty
  rows,        \* useState rows: the visible record sequence
  parsing,     \* <<n>> while Papa.parse reads a file of n rows, else <<>>
  status,      \* useState status
  progress,    \* useState progress
  message,     \* useState message (tag of the text)
  errorLog,    \* useState errorLog: index -> last error message, 0 when absent
  cancel,      \* cancelRef.current.cancel
  running,     \* useConcurrentQueue: running.current
  queue,       \* useConcurrentQueue: queue.current (resolvers, by task)
  micro,       \* the microtask queue of the event loop
  batch,       \* locals of each live handleStart invocation
  task,        \* position and locals of each task closure
  started,     \* number of batches started since the page was opened
  costInfo,    \* useState costInfo, amounts in 1/100000 USD
  call         \* a call of a pure helper under evaluation, <<>> when none

vars == <<apiKey, rows, parsing, status, progress, message, errorLog, cancel,
          running, queue, micro, batch, task, started, costInfo, call>>

\* A record as loaded: no result fields yet.
FreshRow(i) ==
  [id |-> i, raw |-> "none", valid |-> "none", json |-> "none",
   score |-> "none", decision |-> "none"]

FreshRows(n) == [i \in 1..n |-> FreshRow(i)]

\* An error message is identified by the attempt that raised it; 0: absent.
NoErrors == [i \in Idx |-> 0]

\* A field of a reply's usage object: <<n>> when present, <<>> when absent.
\* NoUsage is the {} that stands in for a reply without usage, SomeUsage a
\* reply that reports 2 prompt tokens and 1 completion token.
NoUsage == [prompt_tokens |-> <<>>, completion_tokens |-> <<>>]

SomeUsage == [prompt_tokens |-> <<2>>, completion_tokens |-> <<1>>]

IdleBatch ==
  [hs |-> "free", limit |-> 1, maxRetries |-> 0, totalCount |-> 0,
   input |-> <<>>, updatedRows |-> <<>>, completed |-> 0,
   promptTokens |-> 0, completionTokens |-> 0]

\* pc: position of the closure; attempts: the loop counter; sent: requests
\* started; delay: the pending backoff; result: what it wrote to updatedRows;
\* usage: the usage object of the reply it received.
IdleTask ==
  [pc |-> "none", attempts |-> 0, sent |-> 0, delay |-> 0, result |-> "none",
   usage |-> NoUsage]

\* An amount of money is <<n>>, n in 1/100000 USD, or <<>> for NaN.
NoCost == [prompt |-> <<0>>, completion |-> <<0>>, total |-> <<0>>]

Init ==
  /\ apiKey = FALSE
  /\ rows = <<>>
  /\ parsing = <<>>
  /\ status = "idle"
  /\ progress = 0
  /\ message = ""
  /\ errorLog = NoErrors
  /\ cancel = FALSE
  /\ running = 0
  /\ queue = <<>>
  /\ micro = <<>>
  /\ batch = [s \in Slots |-> IdleBatch]
  /\ task = [t \in TaskIds |-> IdleTask]
  /\ started = 0
  /\ costInfo = NoCost
  /\ call = <<>>

\* ---- pure helpers ----

Max(a, b) == IF a >= b THEN a ELSE b

Min(a, b) == IF a <= b THEN a ELSE b

\* Math.round((completed / Math.max(1, totalCount)) * 100), round half up.
RoundPct(c, n) == (200 * c + Max(1, n)) \div (2 * Max(1, n))

\* Math.max(0, Math.min(100, progress)): what the progress bar shows.
Clamp(p) == Max(0, Min(100, p))

progressValue == Clamp(progress)

\* sleep(500 * attempts)
Backoff(a) == BaseDelay * a

\* Number(x || 0) of a usage field.
TokenCount(f) == IF f = <<>> THEN 0 ELSE f[1]

\* The models of the price table.
TableModels == {"gpt-4o", "gpt-4o-mini", "gpt-4.1-mini", "gpt-3.5-turbo"}

\* The price table, in cents per 1000 tokens; a field is <<n>>.
pricePer1k ==
  [m \in TableModels |->
     CASE m = "gpt-4o" -> [in |-> <<250>>, out |-> <<1000>>]
       [] m = "gpt-4o-mini" -> [in |-> <<15>>, out |-> <<60>>]
       [] m = "gpt-4.1-mini" -> [in |-> <<20>>, out |-> <<80>>]
       [] m = "gpt-3.5-turbo" -> [in |-> <<50>>, out |-> <<150>>]]

\* Property names that an object literal inherits from Object.prototype.
ProtoKeys == {"constructor", "toString", "valueOf", "__proto__"}

\* pricePer1k[model] || pricePer1k["gpt-4o-mini"]: the own entry; for an
\* inherited name the inherited member, which is truthy and has neither
\* in nor out; for any other name undefined, hence the default entry.
PriceEntry(model) ==
  IF model \in TableModels THEN pricePer1k[model]
  ELSE IF model \in ProtoKeys THEN [in |-> <<>>, out |-> <<>>]
  ELSE pricePer1k["gpt-4o-mini"]

\* (tokens / 1000) * price: cents per 1000 tokens times tokens is an amount
\* in 1/100000 USD; an undefined price gives NaN.
Times(tokens, price) == IF price = <<>> THEN <<>> ELSE <<tokens * price[1]>>

Plus(a, b) == IF a = <<>> \/ b = <<>> THEN <<>> ELSE <<a[1] + b[1]>>

estimateOpenAIPrice(model, promptTokens, completionTokens) ==
  LET p == PriceEntry(model)
      promptUSD == Times(promptTokens, p.in)
      completionUSD == Times(completionTokens, p.out)
  IN [promptUSD |-> promptUSD, completionUSD |-> completionUSD,
      totalUSD |-> Plus(promptUSD, completionUSD)]

\* ---- renderTemplate ----
\* A template is a sequence of tokens: "{", "}", " " and words, a word being
\* a run of characters that are neither braces nor white space.  A value is
\* [kind, text], text being what String(value) returns.  The rendered
\* string is a sequence of pieces: literal tokens, value texts and the JSON
\* text of the record.

Str(t) == [kind |-> "string", text |-> t]

Num(t) == [kind |-> "number", text |-> t]

Null == [kind |-> "null", text |-> "null"]

Undefined == [kind |-> "undefined", text |-> "undefined"]

\* The member a plain object inherits under name k.
Inherited(k) ==
  IF k = "__proto__" THEN [kind |-> "object", text |-> "[object Object]"]
  ELSE [kind |-> "function", text |-> "function () { [native code] }"]

\* row[k]: the own field, else the inherited member, else undefined.  A key
\* is a token sequence; the field names are single words.
Get(row, k) ==
  IF Len(k) = 1 /\ k[1] \in DOMAIN row THEN row[k[1]]
  ELSE IF Len(k) = 1 /\ k[1] \in ProtoKeys THEN Inherited(k[1])
  ELSE Undefined

\* String.prototype.trim on a token sequence.
RECURSIVE Trim(_)
Trim(k) ==
  IF k = <<>> THEN k
  ELSE IF Head(k) = " " THEN Trim(Tail(k))
  ELSE IF k[Len(k)] = " " THEN Trim(SubSeq(k, 1, Len(k) - 1))
  ELSE k

\* The index of the first "}" of tpl at or after j, 0 when there is none.
RECURSIVE FirstClose(_, _)
FirstClose(tpl, j) ==
  IF j > Len(tpl) THEN 0
  ELSE IF tpl[j] = "}" THEN j
  ELSE FirstClose(tpl, j + 1)

\* /\{\{\s*([^}]+)\s*\}\}/ tried at position i: the index of the last token
\* of the match, 0 when it does not match.  After "{{" the run of tokens
\* other than "}" must be non-empty and be followed by "}}".
MatchEnd(tpl, i) ==
  IF i + 1 > Len(tpl) \/ tpl[i] # "{" \/ tpl[i + 1] # "{" THEN 0
  ELSE LET j == FirstClose(tpl, i + 2)
       IN IF j > i + 2 /\ j + 1 <= Len(tpl) /\ tpl[j + 1] = "}"
            THEN j + 1 ELSE 0

\* The replacer callback: k is the trimmed key.
Replacer(k, row) ==
  IF k = <<"json">> THEN <<[kind |-> "json", text |-> "JSON.stringify(row)"]>>
  ELSE IF Get(row, k).kind \notin {"null", "undefined"}
         THEN <<[kind |-> "value", text |-> Get(row, k).text]>>
  ELSE <<>>

\* tpl.replace(regex with flag g, callback), from position i on.
RECURSIVE ReplaceFrom(_, _, _)
ReplaceFrom(tpl, i, row) ==
  IF i > Len(tpl) THEN <<>>
  ELSE LET e == MatchEnd(tpl, i)
       IN IF e = 0
            THEN <<[kind |-> "literal", text |-> tpl[i]]>>
                   \o ReplaceFrom(tpl, i + 1, row)
            ELSE Replacer(Trim(SubSeq(tpl, i + 2, e - 2)), row)
                   \o ReplaceFrom(tpl, e + 1, row)

renderTemplate(tpl, row) == ReplaceFrom(tpl, 1, row)

\* ---- parseJsonLoose ----
\* A text is a sequence of tokens: "fence" for three backticks, the letter words "json"
\* and "true", white space "\n" and " ", the braces, and "m", which stands
\* for the members of an object.

WhiteSpace == {"\n", " "}

Letters == {"json", "true"}

\* The text without its white space tokens.
RECURSIVE Squeeze(_)
Squeeze(t) ==
  IF t = <<>> THEN t
  ELSE IF Head(t) \in WhiteSpace THEN Squeeze(Tail(t))
  ELSE <<Head(t)>> \o Squeeze(Tail(t))

\* String.prototype.trim on a text.
RECURSIVE TrimText(_)
TrimText(t) ==
  IF t = <<>> THEN t
  ELSE IF Head(t) \in WhiteSpace THEN TrimText(Tail(t))
  ELSE IF t[Len(t)] \in WhiteSpace THEN TrimText(SubSeq(t, 1, Len(t) - 1))
  ELSE t

\* The JSON texts over these tokens: true, {} and {"a":1}, with white space
\* allowed around every token.
JsonTexts == {<<"true">>, <<"{", "}">>, <<"{", "m", "}">>}

\* JSON.parse(t) returns; it throws otherwise.
Parses(t) == Squeeze(t) \in JsonTexts

\* The value JSON.parse(t) returns, named by its text without white space.
JsonValue(t) == Squeeze(t)

\* t without a leading run of letter words: [a-zA-Z]*.
RECURSIVE DropLetters(_)
DropLetters(t) ==
  IF t # <<>> /\ Head(t) \in Letters THEN DropLetters(Tail(t)) ELSE t

\* t.replace(/^fence[a-zA-Z]*\n?/, ""), t starting with the fence.
DropOpening(t) ==
  LET u == DropLetters(Tail(t))
  IN IF u # <<>> /\ Head(u) = "\n" THEN Tail(u) ELSE u

\* The index of the first fence of t, from j on, that only white space
\* follows; 0 when there is none: the match of /fence\s*$/.
RECURSIVE ClosingAt(_, _)
ClosingAt(t, j) ==
  IF j > Len(t) THEN 0
  ELSE IF t[j] = "fence" /\ \A k \in (j + 1)..Len(t) : t[k] \in WhiteSpace
         THEN j
  ELSE ClosingAt(t, j + 1)

\* t.replace(/fence\s*$/, "")
DropClosing(t) ==
  IF ClosingAt(t, 1) = 0 THEN t ELSE SubSeq(t, 1, ClosingAt(t, 1) - 1)

stripCodeFences(s) ==
  LET t == TrimText(s)
  IN IF t # <<>> /\ Head(t) = "fence"
       THEN TrimText(DropClosing(DropOpening(t)))
       ELSE t

\* t.indexOf(c) and t.lastIndexOf(c), counted from 1; 0 when c is absent.
RECURSIVE IndexOf(_, _, _)
IndexOf(t, c, j) ==
  IF j > Len(t) THEN 0 ELSE IF t[j] = c THEN j ELSE IndexOf(t, c, j + 1)

RECURSIVE LastIndexOf(_, _, _)
LastIndexOf(t, c, j) ==
  IF j = 0 THEN 0 ELSE IF t[j] = c THEN j ELSE LastIndexOf(t, c, j - 1)

\* A failure carries the error of the direct parse ("e1"), of the parse of
\* the slice ("e2"), or "empty".
Failure(e) == [ok |-> FALSE, value |-> <<>>, error |-> e]

Success(v) == [ok |-> TRUE, value |-> v, error |-> ""]

\* Variant: the slice ends at the first "}" (indexOf instead of
\* lastIndexOf).
parseJsonLooseFirstClose(s) ==
  IF TrimText(s) = <<>> THEN Failure("empty")
  ELSE LET t == stripCodeFences(s)
           start == IndexOf(t, "{", 1)
           end == IndexOf(t, "}", 1)
       IN IF Parses(t) THEN Success(JsonValue(t))
          ELSE IF start >= 1 /\ end > start
                 THEN IF Parses(SubSeq(t, start, end))
                        THEN Success(JsonValue(SubSeq(t, start, end)))
                        ELSE Failure("e2")
          ELSE Failure("e1")

parseJsonLoose(s) ==
  IF TrimText(s) = <<>> THEN Failure("empty")
  ELSE LET t == stripCodeFences(s)
           start == IndexOf(t, "{", 1)
           end == LastIndexOf(t, "}", Len(t))
       IN IF Parses(t) THEN Success(JsonValue(t))
          ELSE IF start >= 1 /\ end > start
                 THEN IF Parses(SubSeq(t, start, end))
                        THEN Success(JsonValue(SubSeq(t, start, end)))
                        ELSE Failure("e2")
          ELSE Failure("e1")

\* Replies of a request that succeeds, by their content: "json", a fenced
\* object with the members score and decision, as the default prompt asks
\* for; "text", words that are no JSON.
Replies == {"json", "text"}

\* Further replies: "bare", an object without members; "scalar", a JSON
\* value that is no object.
OtherReplies == {"bare", "scalar"}

\* The content of a reply as a text; "m" is the member list
\* "score":5,"decision":"Go".
Content(reply) ==
  CASE reply = "json" -> <<"fence", "json", "\n", "{", "m", "}", "\n", "fence">>
    [] reply = "text" -> <<"json", "json">>
    [] reply = "bare" -> <<"{", "}">>
    [] reply = "scalar" -> <<"true">>

\* parseJsonLoose(raw) for each reply.
Parsed == [r \in Replies \cup OtherReplies |-> parseJsonLoose(Content(r))]

\* val && typeof val === 'object' && val.score !== undefined, and the same
\* for decision: the value is an object that has the member list.
HasMembers(val) == val # <<>> /\ Head(val) = "{" /\ "m" \in {val[k] : k \in 1..Len(val)}

\* Variant: eval.score and eval.decision are set whenever the reply parses.
AugmentedPromoteAll(row, reply) ==
  IF Parsed[reply].ok
    THEN [row EXCEPT !.raw = reply, !.valid = "true", !.json = "value",
                     !.score = "set", !.decision = "set"]
    ELSE [row EXCEPT !.raw = reply, !.valid = "false", !.json = "empty"]

\* The row written after a reply: the row's fields, the raw output,
\* eval.valid and <resultKey>_json by the parse outcome, eval.score and
\* eval.decision when the parsed value has them.
Augmented(row, reply) ==
  IF Parsed[reply].ok
    THEN [row EXCEPT !.raw = reply, !.valid = "true", !.json = "value",
                     !.score = IF HasMembers(Parsed[reply].value)
                                 THEN "set" ELSE @,
                     !.decision = IF HasMembers(Parsed[reply].value)
                                    THEN "set" ELSE @]
    ELSE [row EXCEPT !.raw = reply, !.valid = "false", !.json = "empty"]

\* The row written when retries are exhausted: "ERROR: ..." as raw output.
ErrorRow(row) == [row EXCEPT !.raw = "error", !.valid = "false"]

\* ---- the task closure and the limiter, as state transformers ----
\* st bundles what these steps change:
\*   [running, queue, micro, batch, task, progress, errorLog]

\* Variant: setProgress reads the counter before the increment.
TaskExitStale(st, s, i) ==
  LET c == st.batch[s].completed + 1 IN
  [st EXCEPT !.batch[s].completed = c,
             !.progress = RoundPct(c - 1, st.batch[s].totalCount),
             !.task[<<s, i>>].pc = "returning",
             !.micro = Append(st.micro, <<"finally", s, i>>)]

\* Variant: completed++ only for a task that wrote a Result.
TaskExitWithResult(st, s, i) ==
  LET c == st.batch[s].completed
             + (IF st.task[<<s, i>>].result # "none" THEN 1 ELSE 0) IN
  [st EXCEPT !.batch[s].completed = c,
             !.progress = RoundPct(c, st.batch[s].totalCount),
             !.task[<<s, i>>].pc = "returning",
             !.micro = Append(st.micro, <<"finally", s, i>>)]

\* completed++; setProgress(...); the closure returns, so the promise that
\* run() awaits is resolved and run's continuation becomes a microtask.
TaskExit(st, s, i) ==
  LET c == st.batch[s].completed + 1 IN
  [st EXCEPT !.batch[s].completed = c,
             !.progress = RoundPct(c, st.batch[s].totalCount),
             !.task[<<s, i>>].pc = "returning",
             !.micro = Append(st.micro, <<"finally", s, i>>)]

\* Variant: the loop test without the cancellation flag.
TaskLoopNoCancel(st, s, i, c) ==
  IF st.task[<<s, i>>].attempts <= st.batch[s].maxRetries
    THEN [st EXCEPT !.task[<<s, i>>].pc = "fetching",
                    !.task[<<s, i>>].sent = @ + 1]
    ELSE TaskExit(st, s, i)

\* Variant: a cancelled task does not leave the loop, it polls the flag
\* (while (cancel) await sleep(...)) until the batch is resumed.
TaskLoopHold(st, s, i, c) ==
  IF c
    THEN [st EXCEPT !.task[<<s, i>>].pc = "sleeping"]
    ELSE IF st.task[<<s, i>>].attempts <= st.batch[s].maxRetries
           THEN [st EXCEPT !.task[<<s, i>>].pc = "fetching",
                           !.task[<<s, i>>].sent = @ + 1]
           ELSE TaskExit(st, s, i)

\* The loop test: true starts a request, false leaves the loop.
TaskLoop(st, s, i, c) ==
  IF st.task[<<s, i>>].attempts <= st.batch[s].maxRetries /\ ~c
    THEN [st EXCEPT !.task[<<s, i>>].pc = "fetching",
                    !.task[<<s, i>>].sent = @ + 1]
    ELSE TaskExit(st, s, i)

\* run(): admission past the gate, then the task starts.
RunAdmit(st, s, i, c) ==
  TaskLoop([st EXCEPT !.running = @ + 1], s, i, c)

\* Variant: the gate compares with > instead of >=.
RunEnterOffByOne(st, s, i, c) ==
  IF st.running > st.batch[s].limit
    THEN [st EXCEPT !.queue = Append(@, <<s, i>>),
                    !.task[<<s, i>>].pc = "queued"]
    ELSE RunAdmit(st, s, i, c)

\* Variant: queue.unshift(resolve) instead of queue.push(resolve).
RunEnterUnshift(st, s, i, c) ==
  IF st.running >= st.batch[s].limit
    THEN [st EXCEPT !.queue = << <<s, i>> >> \o @,
                    !.task[<<s, i>>].pc = "queued"]
    ELSE RunAdmit(st, s, i, c)

\* run(): the gate.  At the limit the caller's resolver is queued.
RunEnter(st, s, i, c) ==
  IF st.running >= st.batch[s].limit
    THEN [st EXCEPT !.queue = Append(@, <<s, i>>),
                    !.task[<<s, i>>].pc = "queued"]
    ELSE RunAdmit(st, s, i, c)

\* updatedRows.map((row, idx) => runConcurrent(...)): submissions i..n of
\* batch s, in index order, within one synchronous turn.
RECURSIVE SubmitAll(_, _, _, _, _)
SubmitAll(st, s, i, n, c) ==
  IF i > n THEN st
  ELSE SubmitAll(RunEnter(st, s, i, c), s, i + 1, n, c)

\* Variant: handleStart continues when the first task has finished
\* (Promise.race instead of Promise.all).
AnySettled(st, s) ==
  \E i \in 1..st.batch[s].totalCount : st.task[<<s, i>>].pc = "settled"

\* Promise.all: every promise returned by runConcurrent is resolved.
AllSettled(st, s) ==
  \A i \in 1..st.batch[s].totalCount : st.task[<<s, i>>].pc = "settled"

\* Variant: queue.pop() instead of queue.shift().
ReleaseLast(st) ==
  IF st.queue = <<>> THEN st
  ELSE [st EXCEPT !.queue = SubSeq(@, 1, Len(@) - 1),
                  !.task[st.queue[Len(st.queue)]].pc = "resuming",
                  !.micro = Append(@, <<"resume", st.queue[Len(st.queue)][1],
                                        st.queue[Len(st.queue)][2]>>)]

\* Variant: the head waiter is called but left in the queue (queue[0]
\* instead of queue.shift()).
ReleasePeek(st) ==
  IF st.queue = <<>> THEN st
  ELSE [st EXCEPT !.task[Head(st.queue)].pc = "resuming",
                  !.micro = Append(@, <<"resume", Head(st.queue)[1],
                                        Head(st.queue)[2]>>)]

\* Release of the head waiter: next().
ReleaseHead(st) ==
  IF st.queue = <<>> THEN st
  ELSE [st EXCEPT !.queue = Tail(@),
                  !.task[Head(st.queue)].pc = "resuming",
                  !.micro = Append(@, <<"resume", Head(st.queue)[1],
                                        Head(st.queue)[2]>>)]

\* Variant: the finally block decrements the count and releases nobody.
RunFinallyNoRelease(st, s, i) ==
  LET a == [st EXCEPT !.running = @ - 1]
      d == [a EXCEPT !.task[<<s, i>>].pc = "settled"]
  IN IF AllSettled(d, s)
       THEN [d EXCEPT !.micro = Append(@, <<"batchEnd", s, 0>>),
                      !.batch[s].hs = "resolving"]
       ELSE d

\* Variant: the finally block releases the next waiter and does not
\* decrement the count.
RunFinallyNoDecrement(st, s, i) ==
  LET b == ReleaseHead(st)
      d == [b EXCEPT !.task[<<s, i>>].pc = "settled"]
  IN IF AllSettled(d, s)
       THEN [d EXCEPT !.micro = Append(@, <<"batchEnd", s, 0>>),
                      !.batch[s].hs = "resolving"]
       ELSE d

\* run(): the finally block, then run's promise resolves; when it is the
\* last of the batch, Promise.all resolves and handleStart continues.
RunFinally(st, s, i) ==
  LET a == [st EXCEPT !.running = @ - 1]
      b == ReleaseHead(a)
      d == [b EXCEPT !.task[<<s, i>>].pc = "settled"]
  IN IF AllSettled(d, s)
       THEN [d EXCEPT !.micro = Append(@, <<"batchEnd", s, 0>>),
                      !.batch[s].hs = "resolving"]
       ELSE d

State ==
  [running |-> running, queue |-> queue, micro |-> micro, batch |-> batch,
   task |-> task, progress |-> progress, errorLog |-> errorLog]

\* Assignment of a transformed bundle to the next state.
Commit(st) ==
  /\ running' = st.running
  /\ queue' = st.queue
  /\ micro' = st.micro
  /\ batch' = st.batch
  /\ task' = st.task
  /\ progress' = st.progress
  /\ errorLog' = st.errorLog

\* ---- the task closure: settling of one request ----

\* Variant: the counters are assigned (=) instead of accumulated (+=).
OnReplyAssign(st, s, i, r, u) ==
  TaskExit([st EXCEPT !.batch[s].updatedRows[i] =
                         Augmented(st.batch[s].input[i], r),
                       !.batch[s].promptTokens = TokenCount(u.prompt_tokens),
                       !.batch[s].completionTokens =
                         TokenCount(u.completion_tokens),
                       !.task[<<s, i>>].usage = u,
                       !.task[<<s, i>>].result = "reply"], s, i)

\* Variant: the try branch without break, so the loop test follows the
\* write of the reply.
OnReplyNoBreak(st, s, i, r, u) ==
  TaskLoop([st EXCEPT !.batch[s].updatedRows[i] =
                         Augmented(st.batch[s].input[i], r),
                       !.batch[s].promptTokens =
                         @ + TokenCount(u.prompt_tokens),
                       !.batch[s].completionTokens =
                         @ + TokenCount(u.completion_tokens),
                       !.task[<<s, i>>].usage = u,
                       !.task[<<s, i>>].result = "reply"], s, i, cancel)

\* try branch: the reply is stored in updatedRows[idx], its usage is added
\* to the token counters, break, exit.
OnReply(st, s, i, r, u) ==
  TaskExit([st EXCEPT !.batch[s].updatedRows[i] =
                         Augmented(st.batch[s].input[i], r),
                       !.batch[s].promptTokens =
                         @ + TokenCount(u.prompt_tokens),
                       !.batch[s].completionTokens =
                         @ + TokenCount(u.completion_tokens),
                       !.task[<<s, i>>].usage = u,
                       !.task[<<s, i>>].result = "reply"], s, i)

\* Variant: retries are given up one attempt early (>= instead of >).
OnErrorEarly(st, s, i) ==
  LET a == st.task[<<s, i>>].attempts + 1
      l == [st EXCEPT !.task[<<s, i>>].attempts = a,
                      !.errorLog[i] = a]
  IN IF a >= st.batch[s].maxRetries
       THEN TaskExit([l EXCEPT !.batch[s].updatedRows[i] =
                                  ErrorRow(st.batch[s].input[i]),
                               !.task[<<s, i>>].result = "error"], s, i)
       ELSE [l EXCEPT !.task[<<s, i>>].pc = "sleeping",
                      !.task[<<s, i>>].delay = Backoff(a)]

\* Variant: the last error is thrown out of the closure, so Promise.all
\* rejects and handleStart continues while the other tasks are unfinished.
OnErrorThrows(st, s, i) ==
  LET a == st.task[<<s, i>>].attempts + 1
      l == [st EXCEPT !.task[<<s, i>>].attempts = a,
                      !.errorLog[i] = a]
  IN IF a > st.batch[s].maxRetries
       THEN [l EXCEPT !.task[<<s, i>>].pc = "returning",
                      !.micro = Append(Append(@, <<"finally", s, i>>),
                                       <<"batchEnd", s, 0>>),
                      !.batch[s].hs = "resolving"]
       ELSE [l EXCEPT !.task[<<s, i>>].pc = "sleeping",
                      !.task[<<s, i>>].delay = Backoff(a)]

\* Variant: sleep(...) is not awaited, so the loop goes on at once.
OnErrorNoAwait(st, s, i) ==
  LET a == st.task[<<s, i>>].attempts + 1
      l == [st EXCEPT !.task[<<s, i>>].attempts = a,
                      !.errorLog[i] = a]
  IN IF a > st.batch[s].maxRetries
       THEN TaskExit([l EXCEPT !.batch[s].updatedRows[i] =
                                  ErrorRow(st.batch[s].input[i]),
                               !.task[<<s, i>>].result = "error"], s, i)
       ELSE TaskLoop([l EXCEPT !.task[<<s, i>>].delay = Backoff(a)],
                     s, i, cancel)

\* Variant: the error row is written on every failed attempt, not only on
\* the last one.
OnErrorAlwaysRow(st, s, i) ==
  LET a == st.task[<<s, i>>].attempts + 1
      l == [st EXCEPT !.task[<<s, i>>].attempts = a,
                      !.errorLog[i] = a,
                      !.batch[s].updatedRows[i] =
                         ErrorRow(st.batch[s].input[i])]
  IN IF a > st.batch[s].maxRetries
       THEN TaskExit([l EXCEPT !.task[<<s, i>>].result = "error"], s, i)
       ELSE [l EXCEPT !.task[<<s, i>>].pc = "sleeping",
                      !.task[<<s, i>>].delay = Backoff(a)]

\* Variant: setErrorLog({ [idx]: msg }) without the spread of the
\* previous log.
OnErrorLogAlone(st, s, i) ==
  LET a == st.task[<<s, i>>].attempts + 1
      l == [st EXCEPT !.task[<<s, i>>].attempts = a,
                      !.errorLog = [NoErrors EXCEPT ![i] = a]]
  IN IF a > st.batch[s].maxRetries
       THEN TaskExit([l EXCEPT !.batch[s].updatedRows[i] =
                                  ErrorRow(st.batch[s].input[i]),
                               !.task[<<s, i>>].result = "error"], s, i)
       ELSE [l EXCEPT !.task[<<s, i>>].pc = "sleeping",
                      !.task[<<s, i>>].delay = Backoff(a)]

\* catch branch: attempts++, setErrorLog, then either the error row and
\* break, or the backoff sleep.
OnError(st, s, i) ==
  LET a == st.task[<<s, i>>].attempts + 1
      l == [st EXCEPT !.task[<<s, i>>].attempts = a,
                      !.errorLog[i] = a]
  IN IF a > st.batch[s].maxRetries
       THEN TaskExit([l EXCEPT !.batch[s].updatedRows[i] =
                                  ErrorRow(st.batch[s].input[i]),
                               !.task[<<s, i>>].result = "error"], s, i)
       ELSE [l EXCEPT !.task[<<s, i>>].pc = "sleeping",
                      !.task[<<s, i>>].delay = Backoff(a)]

\* ---- handlers (macrotasks) ----
\* Each starts with an empty microtask queue.  A reply, an error or a timer
\* resumes one closure, whose continuation is the only microtask of that
\* turn, so the event and the continuation up to the next await are one
\* step.  Timers of different tasks may fire in any order.

Live(s) == batch[s].hs \in {"awaiting", "resolving"}

\* No handleStart invocation is between its start and its end.
Quiet == \A s \in Slots : ~Live(s)

FreeSlot(s) == ~Live(s) /\ \A r \in Slots : r < s => Live(r)

\* The Start button is disabled while status is "running".
StartEnabled == status # "running"

\* The Pause button is disabled unless status is "running".
PauseEnabled == status = "running"

setApiKey ==
  /\ micro = <<>>
  /\ apiKey' = ~apiKey
  /\ UNCHANGED <<call, costInfo, rows, parsing, status, progress, message, errorLog, cancel,
                 running, queue, micro, batch, task, started>>

\* handleFile up to the call of Papa.parse; n rows are in the file.  One
\* file is read at a time.
handleFile(n) ==
  /\ micro = <<>>
  /\ parsing = <<>>
  /\ parsing' = <<n>>
  /\ message' = ""
  /\ errorLog' = NoErrors
  /\ status' = "idle"
  /\ progress' = 0
  /\ UNCHANGED <<call, costInfo, apiKey, rows, cancel, running, queue, micro, batch, task, started>>

\* Papa.parse's complete callback.
parseComplete ==
  /\ micro = <<>>
  /\ parsing # <<>>
  /\ rows' = FreshRows(parsing[1])
  /\ message' = "loaded"
  /\ parsing' = <<>>
  /\ UNCHANGED <<call, costInfo, apiKey, status, progress, errorLog, cancel,
                 running, queue, micro, batch, task, started>>

\* Variant: the guard is tested after the cancellation flag, the progress
\* and the error log have been reset.
handleStartNoKeyLate ==
  /\ micro = <<>>
  /\ StartEnabled
  /\ ~apiKey
  /\ message' = "needKey"
  /\ cancel' = FALSE
  /\ progress' = 0
  /\ errorLog' = NoErrors
  /\ UNCHANGED <<call, costInfo, apiKey, rows, parsing, status,
                 running, queue, micro, batch, task, started>>

\* handleStart, first guard: no API key.
handleStartNoKey ==
  /\ micro = <<>>
  /\ StartEnabled
  /\ ~apiKey
  /\ message' = "needKey"
  /\ UNCHANGED <<call, costInfo, apiKey, rows, parsing, status, progress, errorLog, cancel,
                 running, queue, micro, batch, task, started>>

\* handleStart, second guard: no rows.
handleStartNoRows ==
  /\ micro = <<>>
  /\ StartEnabled
  /\ apiKey
  /\ rows = <<>>
  /\ message' = "needCsv"
  /\ UNCHANGED <<call, costInfo, apiKey, rows, parsing, status, progress, errorLog, cancel,
                 running, queue, micro, batch, task, started>>

\* The batch locals that handleStart creates before it submits the tasks.
NewBatch(k, r) ==
  [hs |-> "awaiting", limit |-> k, maxRetries |-> r,
   totalCount |-> Len(rows), input |-> rows, updatedRows |-> rows,
   completed |-> 0, promptTokens |-> 0, completionTokens |-> 0]

\* handleStart from the flag reset to the await of Promise.all.  k is
\* Math.max(1, Number(concurrency)) and r is maxRetries, as set in the
\* Run Settings inputs when Start is clicked; the closures keep these
\* values, so later edits of the inputs do not reach a running batch.
handleStart ==
  /\ micro = <<>>
  /\ StartEnabled
  /\ apiKey
  /\ rows # <<>>
  /\ started < MaxBatches
  /\ started' = started + 1
  /\ \E s \in Slots, k \in 1..MaxK, r \in 0..MaxRetriesBound :
       /\ FreeSlot(s)
       /\ Commit(SubmitAll(
            [State EXCEPT !.batch[s] = NewBatch(k, r),
                          !.progress = 0,
                          !.errorLog = NoErrors],
            s, 1, Len(rows), FALSE))
  /\ cancel' = FALSE
  /\ status' = "running"
  /\ message' = ""
  /\ UNCHANGED <<call, costInfo, apiKey, rows, parsing>>

\* onClick of the Pause button.
handlePause ==
  /\ micro = <<>>
  /\ PauseEnabled
  /\ cancel' = TRUE
  /\ UNCHANGED <<call, costInfo, apiKey, rows, parsing, status, progress, message, errorLog,
                 running, queue, micro, batch, task, started>>

\* fetchOpenAIChat returns { content, usage } with the usage object u.
ReplyWith(u) ==
  /\ micro = <<>>
  /\ \E t \in TaskIds, r \in Replies :
       /\ task[t].pc = "fetching"
       /\ Commit(OnReply(State, t[1], t[2], r, u))
  /\ UNCHANGED <<call, costInfo, apiKey, rows, parsing, status, message, cancel, started>>

\* The reply of an endpoint that reports the tokens used.
ReplyMetered == ReplyWith(SomeUsage)

\* A reply that is JSON without score and decision.
ReplyUnscored ==
  /\ micro = <<>>
  /\ \E t \in TaskIds, r \in OtherReplies :
       /\ task[t].pc = "fetching"
       /\ Commit(OnReply(State, t[1], t[2], r, NoUsage))
  /\ UNCHANGED <<call, costInfo, apiKey, rows, parsing, status, message, cancel, started>>

\* The reply of an endpoint that reports no usage.
Reply ==
  /\ micro = <<>>
  /\ \E t \in TaskIds, r \in Replies :
       /\ task[t].pc = "fetching"
       /\ Commit(OnReply(State, t[1], t[2], r, NoUsage))
  /\ UNCHANGED <<call, costInfo, apiKey, rows, parsing, status, message, cancel, started>>

\* fetchOpenAIChat throws (non-2xx status) or fetch rejects.
Fail ==
  /\ micro = <<>>
  /\ \E t \in TaskIds :
       /\ task[t].pc = "fetching"
       /\ Commit(OnError(State, t[1], t[2]))
  /\ UNCHANGED <<call, costInfo, apiKey, rows, parsing, status, message, cancel, started>>

\* The backoff timer fires and the loop test is evaluated again.
Wake ==
  /\ micro = <<>>
  /\ \E t \in TaskIds :
       /\ task[t].pc = "sleeping"
       /\ Commit(TaskLoop([State EXCEPT !.task[t].delay = 0],
                          t[1], t[2], cancel))
  /\ UNCHANGED <<call, costInfo, apiKey, rows, parsing, status, message, cancel, started>>

\* ---- microtasks ----

Job == Head(micro)

Popped == [State EXCEPT !.micro = Tail(@)]

\* run() resumes after await task(): the finally block.
runFinally ==
  /\ micro # <<>>
  /\ Job[1] = "finally"
  /\ Commit(RunFinally(Popped, Job[2], Job[3]))
  /\ UNCHANGED <<call, costInfo, apiKey, rows, parsing, status, message, cancel, started>>

\* run() resumes after the await of its queued resolver.
runResume ==
  /\ micro # <<>>
  /\ Job[1] = "resume"
  /\ Commit(RunAdmit(Popped, Job[2], Job[3], cancel))
  /\ UNCHANGED <<call, costInfo, apiKey, rows, parsing, status, message, cancel, started>>

\* The model selected on the page: the first option of the select.
model == "gpt-4o-mini"

\* The object given to setCostInfo.
CostInfo(pricing) ==
  [prompt |-> pricing.promptUSD, completion |-> pricing.completionUSD,
   total |-> pricing.totalUSD]

\* Variant: the paused branch publishes the local copy as well
\* (setRows(updatedRows) before the test of the flag).
batchEndPublish ==
  /\ micro # <<>>
  /\ Job[1] = "batchEnd"
  /\ micro' = Tail(micro)
  /\ rows' = batch[Job[2]].updatedRows
  /\ IF ~cancel
       THEN /\ costInfo' = CostInfo(estimateOpenAIPrice(model,
                                      batch[Job[2]].promptTokens,
                                      batch[Job[2]].completionTokens))
            /\ status' = "done"
            /\ message' = "done"
       ELSE /\ costInfo' = costInfo
            /\ status' = "paused"
            /\ message' = "paused"
  /\ batch' = [batch EXCEPT ![Job[2]] = IdleBatch]
  /\ task' = [t \in TaskIds |-> IF t[1] = Job[2] THEN IdleTask ELSE task[t]]
  /\ UNCHANGED <<call, apiKey, parsing, progress, errorLog, cancel,
                 running, queue, started>>

\* handleStart resumes after await Promise.all(...).
batchEnd ==
  /\ micro # <<>>
  /\ Job[1] = "batchEnd"
  /\ micro' = Tail(micro)
  /\ IF ~cancel
       THEN /\ rows' = batch[Job[2]].updatedRows
            /\ costInfo' = CostInfo(estimateOpenAIPrice(model,
                                      batch[Job[2]].promptTokens,
                                      batch[Job[2]].completionTokens))
            /\ status' = "done"
            /\ message' = "done"
            /\ batch' = [batch EXCEPT ![Job[2]] = IdleBatch]
       ELSE /\ rows' = rows
            /\ costInfo' = costInfo
            /\ status' = "paused"
            /\ message' = "paused"
            /\ batch' = [batch EXCEPT ![Job[2]] = IdleBatch]
  /\ task' = [t \in TaskIds |-> IF t[1] = Job[2] THEN IdleTask ELSE task[t]]
  /\ UNCHANGED <<call, apiKey, parsing, progress, errorLog, cancel,
                 running, queue, started>>

\* ---- specifications ----

\* No file is being read.
Loaded == parsing = <<>>

\* The visible records carry no result fields: they are input Records.
Unevaluated == \A i \in 1..Len(rows) : rows[i] = FreshRow(i)

\* The engine behind its input interface: a record set is loaded between
\* batches, Start is clicked once the file is read, and the records given
\* to a batch are input Records.
Next ==
  \/ (Quiet /\ setApiKey)
  \/ (Quiet /\ \E n \in 0..MaxRecords : handleFile(n))
  \/ parseComplete
  \/ (Loaded /\ handleStartNoKey)
  \/ (Loaded /\ handleStartNoRows)
  \/ (Loaded /\ Unevaluated /\ handleStart)
  \/ handlePause
  \/ Reply
  \/ Fail
  \/ Wake
  \/ runFinally
  \/ runResume
  \/ batchEnd

Spec == Init /\ [][Next]_vars

\* The page as rendered: the file input stays enabled while a batch runs
\* (a file chosen during a batch has at most MaxReload rows).
NextUI ==
  \/ (Quiet /\ setApiKey)
  \/ (\E n \in 0..(IF Quiet THEN MaxRecords ELSE MaxReload) : handleFile(n))
  \/ parseComplete
  \/ (Loaded /\ handleStartNoKey)
  \/ (Loaded /\ handleStartNoRows)
  \/ (Loaded /\ Unevaluated /\ handleStart)
  \/ handlePause
  \/ Reply
  \/ Fail
  \/ Wake
  \/ runFinally
  \/ runResume
  \/ batchEnd

SpecUI == Init /\ [][NextUI]_vars

\* The engine under the scheduling the platform gives: queued microtasks
\* run, timers fire, and every request settles with a reply or an error.
Fairness ==
  /\ WF_vars(runFinally)
  /\ WF_vars(runResume)
  /\ WF_vars(batchEnd)
  /\ WF_vars(Wake)
  /\ WF_vars(Reply \/ Fail)

SpecFair == Spec /\ Fairness

\* The engine with an endpoint whose replies may report the tokens used.
NextCost ==
  \/ (Quiet /\ setApiKey)
  \/ (Quiet /\ \E n \in 0..MaxRecords : handleFile(n))
  \/ parseComplete
  \/ (Loaded /\ handleStartNoKey)
  \/ (Loaded /\ handleStartNoRows)
  \/ (Loaded /\ Unevaluated /\ handleStart)
  \/ handlePause
  \/ Reply
  \/ ReplyMetered
  \/ Fail
  \/ Wake
  \/ runFinally
  \/ runResume
  \/ batchEnd

SpecCost == Init /\ [][NextCost]_vars

\* The engine with replies of every content.
NextEval ==
  \/ (Quiet /\ setApiKey)
  \/ (Quiet /\ \E n \in 0..MaxRecords : handleFile(n))
  \/ parseComplete
  \/ (Loaded /\ handleStartNoKey)
  \/ (Loaded /\ handleStartNoRows)
  \/ (Loaded /\ Unevaluated /\ handleStart)
  \/ handlePause
  \/ Reply
  \/ ReplyUnscored
  \/ Fail
  \/ Wake
  \/ runFinally
  \/ runResume
  \/ batchEnd

SpecEval == Init /\ [][NextEval]_vars

\* ---- the pure helpers as specifications of their own ----
\* A call is a record of the arguments and of the value returned, out = <<>>
\* until the function has returned and <<value>> after.  The page is as
\* constructed and stays so.

PageIdle ==
  /\ apiKey = FALSE
  /\ rows = <<>>
  /\ parsing = <<>>
  /\ status = "idle"
  /\ progress = 0
  /\ message = ""
  /\ errorLog = NoErrors
  /\ cancel = FALSE
  /\ running = 0
  /\ queue = <<>>
  /\ micro = <<>>
  /\ batch = [s \in Slots |-> IdleBatch]
  /\ task = [t \in TaskIds |-> IdleTask]
  /\ started = 0
  /\ costInfo = NoCost

PageUnchanged ==
  UNCHANGED <<apiKey, rows, parsing, status, progress, message, errorLog,
              cancel, running, queue, micro, batch, task, started, costInfo>>

\* Model names given to estimateOpenAIPrice: those of the table, a name
\* that is in no table, and names that every object inherits.
ModelNames == TableModels \cup {"gpt-5"} \cup ProtoKeys

\* Token counts given to estimateOpenAIPrice.
TokenAmounts == {0, 1, 999, 2000, 3000}

InitPrice ==
  /\ PageIdle
  /\ call \in [fn : {"estimateOpenAIPrice"}, model : ModelNames,
                promptTokens : TokenAmounts, completionTokens : TokenAmounts,
                out : {<<>>}]

callEstimateOpenAIPrice ==
  /\ call.fn = "estimateOpenAIPrice"
  /\ call.out = <<>>
  /\ call' = [call EXCEPT !.out =
                 <<estimateOpenAIPrice(call.model, call.promptTokens,
                                       call.completionTokens)>>]
  /\ PageUnchanged

NextPrice == callEstimateOpenAIPrice

SpecPrice == InitPrice /\ [][NextPrice]_vars

\* Tokens of the templates given to renderTemplate: the braces, a blank,
\* the key json, a column of the records, a name no record has, and a name
\* every object inherits.
TplTokens == {"{", "}", " ", "json", "name", "zip", "toString"}

Templates == UNION {[1..n -> TplTokens] : n \in 0..MaxTplLen}

\* Records given to renderTemplate.
TplRows == {[name |-> Str("World")], [name |-> Null, x |-> Num("1")]}

InitTemplate ==
  /\ PageIdle
  /\ call \in [fn : {"renderTemplate"}, tpl : Templates, row : TplRows,
                out : {<<>>}]

callRenderTemplate ==
  /\ call.fn = "renderTemplate"
  /\ call.out = <<>>
  /\ call' = [call EXCEPT !.out = <<renderTemplate(call.tpl, call.row)>>]
  /\ PageUnchanged

NextTemplate == callRenderTemplate

SpecTemplate == InitTemplate /\ [][NextTemplate]_vars

\* Tokens of the texts given to parseJsonLoose.
TextTokens == {"fence", "json", "true", "\n", "{", "}", "m"}

Texts == UNION {[1..n -> TextTokens] : n \in 0..MaxTextLen}

InitParse ==
  /\ PageIdle
  /\ call \in [fn : {"parseJsonLoose"}, s : Texts, out : {<<>>}]

callParseJsonLoose ==
  /\ call.fn = "parseJsonLoose"
  /\ call.out = <<>>
  /\ call' = [call EXCEPT !.out = <<parseJsonLoose(call.s)>>]
  /\ PageUnchanged

NextParse == callParseJsonLoose

SpecParse == InitParse /\ [][NextParse]_vars

\* ---- properties ----

TasksOf(s) == {<<s, i>> : i \in 1..batch[s].totalCount}

\* Tasks past the gate whose finally block has not run yet.
Admitted(s) ==
  {t \in TasksOf(s) : task[t].pc \in {"fetching", "sleeping", "returning"}}

Ended(t) == task[t].pc \in {"returning", "settled"}

C3_RetryCount ==
  \A s \in Slots :
    Live(s) /\ ~cancel =>
      /\ \A i \in 1..batch[s].totalCount :
           (Ended(<<s, i>>) /\ task[<<s, i>>].result # "reply") =>
             /\ task[<<s, i>>].sent = batch[s].maxRetries + 1
             /\ task[<<s, i>>].attempts = batch[s].maxRetries + 1
             /\ task[<<s, i>>].result = "error"
             /\ batch[s].updatedRows[i] = ErrorRow(batch[s].input[i])
             /\ batch[s].updatedRows[i].valid = "false"
      /\ batch[s].hs = "resolving" =>
           \A i \in 1..batch[s].totalCount : task[<<s, i>>].result # "none"

\* A batch with one retry ends unpaused: one record failed twice, another
\* record got its reply after the failing one had been given up.
C3_Witness ==
  \E s \in Slots :
    /\ batch[s].hs = "resolving"
    /\ ~cancel
    /\ batch[s].maxRetries = 1
    /\ task[<<s, 1>>].result = "error"
    /\ task[<<s, 1>>].sent = 2
    /\ \E t \in TasksOf(s) : task[t].result = "reply"

\* handleStart of batch s continues after Promise.all in this step.
Ends(s) == batch[s].hs = "resolving" /\ batch'[s].hs # "resolving"

\* C4: when a paused batch ends, the record sequence it leaves holds every
\* Result its tasks produced, and original records elsewhere.
C4_PausedKeepsResults ==
  [][\A s \in Slots : (Ends(s) /\ cancel) => rows' = batch[s].updatedRows]_vars

\* The request of task t fails in this step.
Fails(t) == task'[t].attempts = task[t].attempts + 1

\* C5: when a request fails the counter is incremented and the error is
\* logged under the index; with counter <= maxRetries and no cancellation the
\* task sleeps 500 ms x attempts; in every other case it is exhausted and the
\* error row with eval.valid = false is written.
C5_FailureTransition ==
  [][\A t \in TaskIds :
       Fails(t) =>
         /\ errorLog'[t[2]] = task'[t].attempts
         /\ IF task'[t].attempts <= batch[t[1]].maxRetries /\ ~cancel
              THEN /\ task'[t].pc = "sleeping"
                   /\ task'[t].delay = BaseDelay * task'[t].attempts
              ELSE /\ task'[t].result = "error"
                   /\ batch'[t[1]].updatedRows[t[2]]
                        = ErrorRow(batch[t[1]].input[t[2]])
                   /\ batch'[t[1]].updatedRows[t[2]].valid = "false"]_vars

\* C6: the step in which a task exhausts its retries changes no other task,
\* no other record and not the cancellation flag; and a batch that ends
\* without a pause has a Result for every record.
C6_FailureIsolation ==
  /\ [][\A t \in TaskIds :
          (task[t].result = "none" /\ task'[t].result = "error") =>
            /\ cancel' = cancel
            /\ queue' = queue
            /\ \A u \in TaskIds \ {t} : task'[u] = task[u]
            /\ \A j \in 1..batch[t[1]].totalCount :
                 j # t[2] =>
                   batch'[t[1]].updatedRows[j] = batch[t[1]].updatedRows[j]]_vars
  /\ [](\A s \in Slots :
          (batch[s].hs = "resolving" /\ ~cancel) =>
            \A i \in 1..batch[s].totalCount :
              /\ task[<<s, i>>].result # "none"
              /\ task[<<s, i>>].result = "reply"
                   => batch[s].updatedRows[i].raw \in Replies)

\* An unpaused batch about to end in which the first record was given up
\* and the two others, one of them queued behind it, got their replies.
C6_Witness ==
  \E s \in Slots :
    /\ batch[s].hs = "resolving"
    /\ ~cancel
    /\ batch[s].limit = 1
    /\ task[<<s, 1>>].result = "error"
    /\ task[<<s, 2>>].result = "reply"
    /\ task[<<s, 3>>].result = "reply"

C8_CompletedCounter ==
  \A s \in Slots :
    Live(s) =>
      /\ batch[s].completed <= batch[s].totalCount
      /\ batch[s].completed
           = Cardinality({t \in TasksOf(s) : task[t].result # "none"})

\* C9: while a batch is unfinished the cancellation flag, once set, stays
\* set, and no new batch starts.
C9_FlagSticky ==
  /\ [][(cancel /\ \E s \in Slots : Live(s)) => cancel']_vars
  /\ [][(\E s \in Slots : Live(s)) => started' = started]_vars

\* C10: the waiter queue grows at its tail only and shrinks at its head
\* only, and the task released by a completion is the head of the queue.
C10_WaitersFIFO ==
  [][/\ \A t \in TaskIds :
          (task[t].pc = "queued" /\ task'[t].pc # "queued") =>
            /\ queue # <<>>
            /\ t = Head(queue)
            /\ queue' = Tail(queue)
            /\ task'[t].pc = "resuming"
     /\ queue' # queue =>
          \/ queue # <<>> /\ queue' = Tail(queue)
          \/ /\ Len(queue') > Len(queue)
             /\ SubSeq(queue', 1, Len(queue)) = queue
     /\ \A k \in 1..Len(queue') : task'[queue'[k]].pc = "queued"]_vars

\* With K = 1 and three records, the first completion has released record 2
\* and record 3, queued after it, still waits.
C10_Witness ==
  \E s \in Slots :
    /\ batch[s].limit = 1
    /\ task[<<s, 1>>].pc = "settled"
    /\ task[<<s, 2>>].pc = "resuming"
    /\ task[<<s, 3>>].pc = "queued"
    /\ queue = << <<s, 3>> >>

\* Task t is past the gate: running was incremented for it and its closure
\* was called.
PastGate(t) == task[t].pc \in {"fetching", "sleeping", "returning", "settled"}

Completes(t) == task[t].pc = "returning" /\ task'[t].pc = "settled"

\* The waiters released in this step.
Released == {u \in TaskIds : task[u].pc # "resuming" /\ task'[u].pc = "resuming"}

\* The number of pending resumptions of task t.
ResumesOf(t) ==
  Cardinality({k \in 1..Len(micro) : micro[k] = <<"resume", t[1], t[2]>>})

\* C12: the step in which a task completes, with a reply, an error row or
\* no Result, decrements running by one and releases the head waiter and
\* no other (none when the queue is empty); a waiter is released only by a
\* completion, and a released waiter is out of the queue with exactly one
\* resumption pending.
C12_ReleaseStep ==
  /\ [][\A t \in TaskIds :
          Completes(t) =>
            /\ running' = running - 1
            /\ IF queue = <<>>
                 THEN queue' = <<>> /\ Released = {}
                 ELSE queue' = Tail(queue) /\ Released = {Head(queue)}]_vars
  /\ [][Released # {} => \E t \in TaskIds : Completes(t)]_vars
  /\ [](\A t \in TaskIds :
          /\ ResumesOf(t) = (IF task[t].pc = "resuming" THEN 1 ELSE 0)
          /\ Cardinality({k \in 1..Len(queue) : queue[k] = t})
               = (IF task[t].pc = "queued" THEN 1 ELSE 0))

\* With K = 1: record 1 was given up and its completion released record 2,
\* whose reply released record 3; nobody waits and nothing runs.
C12_Witness ==
  \E s \in Slots :
    /\ batch[s].limit = 1
    /\ task[<<s, 1>>].result = "error" /\ task[<<s, 1>>].pc = "settled"
    /\ task[<<s, 2>>].result = "reply" /\ task[<<s, 2>>].pc = "settled"
    /\ task[<<s, 3>>].pc = "resuming"
    /\ queue = <<>>
    /\ running = 0

\* The waiters that were released and have not resumed yet.
Resuming == {t \in TaskIds : task[t].pc = "resuming"}

\* C13: a queued task is eventually past the gate when requests settle,
\* timers fire and microtasks run; and whenever a task of a batch waits,
\* every place under the limit of the batch is taken by a running task or
\* by a released waiter whose resumption is pending.
C13_NoLostWakeup ==
  /\ [](\A s \in Slots :
          (\E t \in TasksOf(s) : task[t].pc = "queued")
            => running + Cardinality(Resuming) >= batch[s].limit)
  /\ \A t \in TaskIds : (task[t].pc = "queued") ~> PastGate(t)

\* After a pause with K = 1: nothing runs, record 2 was released and has
\* not resumed yet, record 3 still waits.
C13_Witness ==
  \E s \in Slots :
    /\ cancel
    /\ batch[s].limit = 1
    /\ running = 0
    /\ task[<<s, 2>>].pc = "resuming"
    /\ task[<<s, 3>>].pc = "queued"

\* Task t was submitted and its run() has not finished: it waits, was
\* released, has a request in flight, is in backoff, or has returned with
\* the finally block pending.
Unfinished(t) ==
  task[t].pc \in {"queued", "resuming", "fetching", "sleeping", "returning"}

C15_ConfigFailFast ==
  /\ [][(message' # message /\ message' \in {"needKey", "needCsv"}) =>
          /\ IF message' = "needKey" THEN ~apiKey ELSE apiKey /\ rows = <<>>
          /\ UNCHANGED <<apiKey, rows, parsing, status, progress, errorLog,
                         cancel, running, queue, micro, batch, task,
                         started, costInfo>>]_vars
  /\ [][(~apiKey \/ rows = <<>>) =>
          /\ started' = started
          /\ \A t \in TaskIds : task'[t].sent <= task[t].sent
          /\ status' = "running" => status = "running"]_vars
  /\ [](\A s \in Slots : Live(s) => batch[s].totalCount > 0)

\* After a paused batch with a failed request the key was removed and Start
\* clicked: the message asks for the key; status, progress, error log and
\* flag are those the batch left.
C15_Witness ==
  /\ message = "needKey"
  /\ ~apiKey
  /\ status = "paused"
  /\ cancel
  /\ progress > 0
  /\ errorLog # NoErrors

Validity == {"true", "false"}

RECURSIVE UsageSum(_, _, _)
UsageSum(s, n, f) ==
  IF n = 0 THEN 0
  ELSE UsageSum(s, n - 1, f)
         + (IF task[<<s, n>>].result = "reply"
              THEN TokenCount(task[<<s, n>>].usage[f]) ELSE 0)

\* Task t receives its reply in this step.
Succeeds(t) == task[t].result = "none" /\ task'[t].result = "reply"

\* C18: the token counters of a batch change only in the step in which a
\* request succeeds, by the usage values of that reply (0 for an absent
\* value); a failed attempt leaves them; at every moment, so also at the
\* end, they are the sums over the replies received; and costInfo changes
\* only in the step that ends a batch as "done", to the price of the totals.
C18_TokenAccounting ==
  /\ [][\A s \in Slots :
          (Live(s) /\ batch'[s].hs # "free") =>
            /\ \A i \in 1..batch[s].totalCount :
                 Succeeds(<<s, i>>) =>
                   /\ batch'[s].promptTokens = batch[s].promptTokens
                        + TokenCount(task'[<<s, i>>].usage.prompt_tokens)
                   /\ batch'[s].completionTokens = batch[s].completionTokens
                        + TokenCount(task'[<<s, i>>].usage.completion_tokens)
            /\ (\A i \in 1..batch[s].totalCount : ~Succeeds(<<s, i>>)) =>
                 /\ batch'[s].promptTokens = batch[s].promptTokens
                 /\ batch'[s].completionTokens = batch[s].completionTokens]_vars
  /\ [](\A s \in Slots : Live(s) =>
          /\ batch[s].promptTokens
               = UsageSum(s, batch[s].totalCount, "prompt_tokens")
          /\ batch[s].completionTokens
               = UsageSum(s, batch[s].totalCount, "completion_tokens"))
  /\ [][costInfo' # costInfo =>
          \E s \in Slots : Ends(s) /\ status' = "done"]_vars
  /\ [][\A s \in Slots :
          (Ends(s) /\ status' = "done") =>
            costInfo' = CostInfo(estimateOpenAIPrice(model,
                          UsageSum(s, batch[s].totalCount, "prompt_tokens"),
                          UsageSum(s, batch[s].totalCount,
                                   "completion_tokens")))]_vars

\* A batch is done: record 1 was given up after failed requests, records 2
\* and 3 got replies that reported 2 and 1 tokens each; the cost is that of
\* 4 prompt and 2 completion tokens.
C18_Witness ==
  /\ status = "done"
  /\ Len(rows) = 3
  /\ rows[1].raw = "error"
  /\ rows[2].raw \in Replies
  /\ rows[3].raw \in Replies
  /\ costInfo = [prompt |-> <<60>>, completion |-> <<120>>, total |-> <<180>>]

\* The entry that prices a model: its own, or that of gpt-4o-mini when the
\* table has none.
EntryFor(m) ==
  IF m \in TableModels THEN pricePer1k[m] ELSE pricePer1k["gpt-4o-mini"]

Claimed(k, row) ==
  IF k = <<"json">> THEN <<[kind |-> "json", text |-> "JSON.stringify(row)"]>>
  ELSE IF Len(k) = 1 /\ k[1] \in DOMAIN row /\ row[k[1]].kind # "null"
         THEN <<[kind |-> "value", text |-> row[k[1]].text]>>
  ELSE <<>>

\* The template with every placeholder replaced as the claim says.
RECURSIVE ClaimedFrom(_, _, _)
ClaimedFrom(tpl, i, row) ==
  IF i > Len(tpl) THEN <<>>
  ELSE LET e == MatchEnd(tpl, i)
       IN IF e = 0
            THEN <<[kind |-> "literal", text |-> tpl[i]]>>
                   \o ClaimedFrom(tpl, i + 1, row)
            ELSE Claimed(Trim(SubSeq(tpl, i + 2, e - 2)), row)
                   \o ClaimedFrom(tpl, e + 1, row)

\* C20: renderTemplate returns the template with each placeholder {{ key }}
\* replaced by the JSON text of the record for the key json, by the string
\* form of the record's field of that name when the record has it and it is
\* not null, and by nothing otherwise; the text outside placeholders is
\* kept.
C20_TemplateRendering ==
  (call # <<>> /\ call.fn = "renderTemplate" /\ call.out # <<>>) =>
    call.out[1] = ClaimedFrom(call.tpl, 1, call.row)

\* A call of parseJsonLoose has returned.
ParseReturned == call # <<>> /\ call.fn = "parseJsonLoose" /\ call.out # <<>>

\* Opening and closing fences of a fenced block, and the objects.
FenceOpen ==
  {<<"fence">>, <<"fence", "json">>, <<"fence", "\n">>,
   <<"fence", "json", "\n">>}

FenceClose == {<<"fence">>, <<"\n", "fence">>, <<"fence", "\n">>}

Objects == {<<"{", "}">>, <<"{", "m", "}">>}

C22_SuccessBranch ==
  [][\A t \in TaskIds :
       Succeeds(t) =>
         LET s == t[1]
             i == t[2]
             w == batch'[s].updatedRows[i]
         IN /\ task[t].pc = "fetching"
            /\ task'[t].pc = "returning"
            /\ task'[t].sent = task[t].sent
            /\ task'[t].attempts = task[t].attempts
            /\ errorLog' = errorLog
            /\ cancel' = cancel
            /\ queue' = queue
            /\ \A u \in TaskIds \ {t} : task'[u] = task[u]
            /\ \A j \in 1..batch[s].totalCount :
                 j # i => batch'[s].updatedRows[j] = batch[s].updatedRows[j]
            /\ w.id = batch[s].input[i].id
            /\ w.raw \in Replies \cup OtherReplies
            /\ w.raw = "text" =>
                 /\ w.valid = "false" /\ w.json = "empty"
                 /\ w.score = "none" /\ w.decision = "none"
            /\ w.raw = "json" =>
                 /\ w.valid = "true" /\ w.json = "value"
                 /\ w.score = "set" /\ w.decision = "set"
            /\ w.raw \in OtherReplies =>
                 /\ w.valid = "true" /\ w.json = "value"
                 /\ w.score = "none" /\ w.decision = "none"]_vars

\* A batch is done without any failed request: record 1 got words, record
\* 2 the object with score and decision, record 3 a JSON value that is no
\* object.
C22_Witness ==
  /\ status = "done"
  /\ errorLog = NoErrors
  /\ Len(rows) = 3
  /\ rows[1].raw = "text" /\ rows[1].valid = "false"
  /\ rows[2].raw = "json" /\ rows[2].score = "set"
  /\ rows[3].raw = "scalar" /\ rows[3].valid = "true"
  /\ rows[3].score = "none"

\* The requests of task t that were started and have not settled.
InFlight(t) ==
  task[t].sent - task[t].attempts - (IF task[t].result = "reply" THEN 1 ELSE 0)

C24_Termination ==
  /\ (status = "running") ~> (status \in {"done", "paused"})
  /\ \A s \in Slots : Live(s) ~> ~Live(s)
  /\ [][status = "running" /\ status' # "running" =>
          /\ status' \in {"done", "paused"}
          /\ \E s \in Slots : Ends(s)
          /\ Quiet']_vars

\* A batch of MaxRecords records has ended "paused" after record 1 had a
\* failed request and a backoff.
C24_Witness ==
  /\ Quiet
  /\ status = "paused"
  /\ Len(rows) = MaxRecords
  /\ errorLog[1] = 1
  /\ rows[1].raw = "none"

\* C25: completed is the number of tasks of the batch whose closure has
\* returned, with or without a request or a Result; when handleStart
\* continues after Promise.all, for "done" as for "paused", completed is
\* the number of records and the progress shown is 100, and it stays 100
\* while the page shows "done" or "paused".
C25_CompletedAtSettle ==
  /\ [](\A s \in Slots :
          Live(s) =>
            batch[s].completed = Cardinality({t \in TasksOf(s) : Ended(t)}))
  /\ [](\A s \in Slots :
          batch[s].hs = "resolving" =>
            /\ batch[s].completed = batch[s].totalCount
            /\ batch[s].totalCount = Len(rows)
            /\ progress = 100)
  /\ [][\A s \in Slots :
          Ends(s) => /\ status' \in {"done", "paused"}
                     /\ status' = "paused" <=> cancel
                     /\ progress' = 100]_vars
  /\ [](status \in {"done", "paused"} => progress = 100)

\* A paused batch is about to end: record 1 was cancelled in its backoff,
\* record 2 was admitted after the pause and sent nothing, neither has a
\* Result, and both are counted.
C25_Witness ==
  \E s \in Slots :
    /\ batch[s].hs = "resolving"
    /\ cancel
    /\ batch[s].totalCount = 2
    /\ task[<<s, 1>>].sent = 1
    /\ task[<<s, 1>>].attempts = 1
    /\ task[<<s, 1>>].result = "none"
    /\ task[<<s, 2>>].sent = 0
    /\ task[<<s, 2>>].result = "none"
    /\ batch[s].completed = 2

C27_RequestBound ==
  /\ [](\A s \in Slots : \A t \in TasksOf(s) :
          task[t].sent <= batch[s].maxRetries + 1)
  /\ [](\A t \in TaskIds :
          task[t].result # "none" => task[t].pc \in {"returning", "settled"})
  /\ [][\A t \in TaskIds :
          task'[t].sent > task[t].sent =>
            /\ task[t].result = "none"
            /\ task'[t].result = "none"
            /\ batch'[t[1]].updatedRows[t[2]] = batch'[t[1]].input[t[2]]]_vars

\* Record 1 got its reply on the last request the retries allow, after
\* the pause was requested.
C27_Witness ==
  \E s \in Slots :
    /\ cancel
    /\ batch[s].maxRetries = MaxRetriesBound
    /\ task[<<s, 1>>].sent = MaxRetriesBound + 1
    /\ task[<<s, 1>>].result = "reply"
    /\ batch[s].updatedRows[1].raw \in Replies

====
